---------------------------- MODULE Spec2Model ----------------------------
(***************************************************************************)
(* A model of the mixed-radix FFT engine of kiss_fft.c.                    *)
(*                                                                         *)
(* Scalars.  The engine is built with USE_SIMD, so kiss_fft_scalar is a    *)
(* vector of four independent float lanes; one lane is modelled.  The      *)
(* butterflies use only +, -, *, the constant 1/2 and the table entries    *)
(* cos/sin(2 pi k / N).  These live in the ring Z[1/2, zeta] with zeta a   *)
(* primitive root of unity, and every identity of that ring holds in its   *)
(* image in the prime field F_P, P = 35279: P = 3 (mod 4), so -1 is not a  *)
(* square, F_P[i] is a field, and the points of x^2 + y^2 = 1 form a       *)
(* cyclic group of order P + 1 = 35280 = 2^4 3^2 5 7^2.  A scalar is a     *)
(* residue in 0..P-1, a complex sample a record [r, i] of residues, and    *)
(* the point cos/sin of an angle of k/35280 turns is the k-th power of E1, *)
(* whose 8820th power is i.  All products stay below 2^31.  Rounding is    *)
(* not modelled: the model is the engine in exact arithmetic, for the plan *)
(* lengths that divide 35280.                                              *)
(***************************************************************************)
EXTENDS Integers, Sequences, FiniteSets, TLC

P == 35279
Unit == 35280
E1 == <<73, 1060>>

(* ------------------------------ bounds --------------------------------- *)
MaxFactorN == 130
MinFastN == 12
MaxFastN == 130
\* Plan lengths offered to kiss_fft_alloc: -MinNfft .. MaxN.
MinNfft == 4
MaxN == 24
\* 7 * 7: the least length whose generic butterfly runs with m > 1.
SquareLen == 49
MaxStride == 2
\* The ordinal of the temporary allocation that may fail in a call.
MaxFailAt == 2

(* ----------------------- C integer arithmetic -------------------------- *)
Abs(a) == IF a < 0 THEN -a ELSE a

\* C's / on int: truncation toward zero.
CDiv(a, b) ==
  LET q == Abs(a) \div Abs(b)
  IN  IF (a < 0) = (b < 0) THEN q ELSE -q

\* C's % on int: the remainder has the sign of the dividend.
CRem(a, b) == a - b * CDiv(a, b)

(* ------------------------------ kf_factor ------------------------------ *)
\* A double holding an integer value, or NaN.
Double(v) == [nan |-> FALSE, v |-> v]
NaN == [nan |-> TRUE, v |-> 0]

\* floor( sqrt((double)n) ); the square root of a negative number is NaN.
FloorSqrt(n) ==
  IF n < 0 THEN NaN
  ELSE Double(CHOOSE r \in 0..n : r * r <= n /\ (r + 1) * (r + 1) > n)

\* p > floor_sqrt, a comparison of an int with a double: false on NaN.
GtDouble(p, d) == ~d.nan /\ p > d.v

\* switch (p) { case 4: p = 2; case 2: p = 3; default: p += 2; }
NextTrial(p) ==
  CASE p = 4 -> 2
    [] p = 2 -> 3
    [] OTHER -> p + 2

\* The inner loop  while (n % p) { switch ...; if (p > floor_sqrt) p = n; }
\* Its value is the p that leaves the loop.  With floor_sqrt = NaN and
\* p > |n| no later trial divides n, so p += 2 runs past INT_MAX: overflow.
RECURSIVE kf_factor_trial(_, _, _)
kf_factor_trial(n, p, floor_sqrt) ==
  IF CRem(n, p) = 0 THEN [overflow |-> FALSE, p |-> p]
  ELSE IF floor_sqrt.nan /\ p > Abs(n) /\ p \notin {4, 2} THEN [overflow |-> TRUE, p |-> p]
  ELSE LET q == NextTrial(p)
       IN  kf_factor_trial(n, IF GtDouble(q, floor_sqrt) THEN n ELSE q, floor_sqrt)

\* n /= p; *facbuf++ = p; *facbuf++ = n;  the pair written.
FactorStepMut(n, p) == <<p, CDiv(n, p) + (IF p = 3 THEN 1 ELSE 0)>>
FactorStep(n, p) == <<p, CDiv(n, p)>>

\* do { ... } while (n > 1), writing facbuf; the value is the buffer written
\* and whether the trial loop overflowed p.
RECURSIVE kf_factor_loop(_, _, _, _)
kf_factor_loop(n, p, floor_sqrt, facbuf) ==
  LET t == kf_factor_trial(n, p, floor_sqrt)
  IN  IF t.overflow THEN [overflow |-> TRUE, facbuf |-> facbuf]
      ELSE LET pr == FactorStep(n, t.p)
               buf == facbuf \o pr
           IN  IF pr[2] > 1 THEN kf_factor_loop(pr[2], t.p, floor_sqrt, buf)
               ELSE [overflow |-> FALSE, facbuf |-> buf]

kf_factor(n) == kf_factor_loop(n, 4, FloorSqrt(n), <<>>)

(* ----------------------- kiss_fft_next_fast_size ----------------------- *)
\* The outcome of a loop that may not end.
Ends(v) == [hang |-> FALSE, v |-> v]
Hangs == [hang |-> TRUE, v |-> 0]

\* while ( (m % d) == 0 ) m /= d;   m = 0 never leaves the loop.
RECURSIVE StripFactor(_, _)
StripFactor(m, d) ==
  IF m = 0 THEN Hangs
  ELSE IF CRem(m, d) = 0 THEN StripFactor(CDiv(m, d), d)
  ELSE Ends(m)

\* int m = n; followed by the three stripping loops.
Residue235(n) ==
  LET m2 == StripFactor(n, 2)
      m3 == IF m2.hang THEN Hangs ELSE StripFactor(m2.v, 3)
  IN  IF m3.hang THEN Hangs ELSE StripFactor(m3.v, 5)

\* if (m <= 1) break;
FastEnough(m) == m <= 1

RECURSIVE kiss_fft_next_fast_size(_)
kiss_fft_next_fast_size(n) ==
  LET m == Residue235(n)
  IN  IF m.hang THEN Hangs
      ELSE IF FastEnough(m.v) THEN Ends(n)
      ELSE kiss_fft_next_fast_size(n + 1)

(* ----------------------- scalars and complex samples ------------------- *)
\* kiss_fft_scalar arithmetic in F_P.
FAdd(a, b) == (a + b) % P
FSub(a, b) == (a + P - b) % P
FNeg(a) == (P - a) % P
S_MUL(a, b) == (a * b) % P
HALF_OF(x) == S_MUL(x, (P + 1) \div 2)

Cpx(r, i) == [r |-> r, i |-> i]
CZero == Cpx(0, 0)
COne == Cpx(1, 0)

C_MUL(a, b) ==
  Cpx(FSub(S_MUL(a.r, b.r), S_MUL(a.i, b.i)),
      FAdd(S_MUL(a.r, b.i), S_MUL(a.i, b.r)))
C_ADD(a, b) == Cpx(FAdd(a.r, b.r), FAdd(a.i, b.i))
C_SUB(a, b) == Cpx(FSub(a.r, b.r), FSub(a.i, b.i))
C_MULBYSCALAR(c, s) == Cpx(S_MUL(c.r, s), S_MUL(c.i, s))
\* C_FIXDIV(c, div) is a no-op in the floating-point build.
C_FIXDIV(c, div) == c

\* acc * z^e by squaring, e >= 0  (0 * z^e = 0 and acc * 1^e = acc).
RECURSIVE CPowAcc(_, _, _)
CPowAcc(z, e, acc) ==
  IF e = 0 \/ acc = CZero \/ z = COne THEN acc
  ELSE CPowAcc(C_MUL(z, z), e \div 2, IF e % 2 = 1 THEN C_MUL(acc, z) ELSE acc)

CPow(z, e) == CPowAcc(z, e, COne)

\* kf_cexp(x, phase): x = (cos phase, sin phase).  The phase is given in
\* units of 1/Unit of a turn, as an integer of either sign.
kf_cexp(phase) == CPow(Cpx(E1[1], E1[2]), ((phase % Unit) + Unit) % Unit)

(* ------------------------------ the plan ------------------------------- *)
\* double phase = -2*pi*i / nfft; if (st->inverse) phase *= -1;
TwiddlePhase(i, nfft, inverse) ==
  LET phase == -((Unit * i) \div nfft)
  IN  IF inverse # 0 THEN -phase ELSE phase

\* The plan kiss_fft_alloc fills in when st is not NULL.  facbuf is what
\* kf_factor wrote to st->factors.
PlanOf(nfft, inverse, facbuf) ==
  [nfft |-> nfft,
   inverse |-> inverse,
   twiddles |-> [i \in 0..(nfft - 1) |-> kf_cexp(TwiddlePhase(i, nfft, inverse))],
   factors |-> facbuf]

\* st->factors[i], 0-based as in C.
Factors(st, i) == st.factors[i + 1]

\* What a read outside an object yields: undefined in C, no value here.
Undefined == [undef |-> TRUE]

\* st->twiddles[i].  A read outside the table is undefined.
TwAt(st, i) == IF i \in DOMAIN st.twiddles THEN st.twiddles[i] ELSE Undefined

(* ------------------------- execution context --------------------------- *)
\* A call of the engine runs on a context c:
\*   mem     the memory, address -> complex sample
\*   wr      the addresses written so far
\*   rd      the input addresses read so far
\*   tw      the twiddle indices read so far
\*   gtw     the generic kernel's reads, <<twidx, fstride*k, q>>
\*   openmp  whether the build defines _OPENMP
\*   fails   which temporary allocations fail, by ordinal within the call
\*   na      the number of temporary allocations made so far
\*   failed  whether an allocation has failed
\*   after   the number of butterflies started after a failed allocation
\*   forks   the number of parallel regions entered
\*   ord     every butterfly so far found its whole block written by its
\*           own sub-transforms, and nothing else written by them
\*   log     the KISS_FFT_ERROR messages
\*   ub      an access outside the memory or outside the twiddle table was
\*           made: the behaviour of the call is undefined from there on, and
\*           the context holds what the call did before it
NewCtx(mem, openmp, fails) ==
  [mem |-> mem, wr |-> {}, tw |-> {}, gtw |-> {}, openmp |-> openmp,
   rd |-> {}, fails |-> fails, na |-> 0, failed |-> FALSE, after |-> 0, forks |-> 0,
   ord |-> TRUE, log |-> <<>>, ub |-> FALSE]

Rd(c, a) == IF a \in DOMAIN c.mem THEN c.mem[a] ELSE Undefined
Wr(c, a, v) ==
  IF c.ub THEN c
  ELSE IF a \in DOMAIN c.mem
  THEN [c EXCEPT !.mem[a] = v, !.wr = @ \cup {a}]
  ELSE [c EXCEPT !.ub = TRUE]
\* The samples at addrs are about to be read.
Touch(c, addrs) == [c EXCEPT !.ub = @ \/ ~(addrs \subseteq DOMAIN c.mem)]
\* The table entries at idxs are about to be read.
TwLog(c, st, idxs) ==
  [c EXCEPT !.tw = @ \cup idxs, !.ub = @ \/ ~(idxs \subseteq DOMAIN st.twiddles)]

\* KISS_FFT_ERROR(msg): the message is logged and execution goes on.
KISS_FFT_ERROR(c, msg) == [c EXCEPT !.log = Append(@, msg)]

\* KISS_FFT_TMP_ALLOC: the context after the allocation; the allocation
\* returned NULL iff its ordinal is in c.fails.
TmpAlloc(c) == [c EXCEPT !.na = @ + 1, !.failed = @ \/ ((c.na + 1) \in c.fails)]
TmpAllocIsNull(c) == (c.na + 1) \in c.fails

(* ------------------------------ kf_bfly2 ------------------------------- *)
\* One pass of the do-loop: Fout and Fout2 point at the pair, tw1 is the
\* offset of the twiddle pointer into st->twiddles.
RECURSIVE kf_bfly2_do(_, _, _, _, _, _, _)
kf_bfly2_do(c, Fout, Fout2, tw1, fstride, st, m) ==
  LET t == C_MUL(Rd(c, Fout2), TwAt(st, tw1))
      c1 == Wr(Touch(TwLog(c, st, {tw1}), {Fout, Fout2}), Fout2, C_SUB(Rd(c, Fout), t))
      c2 == Wr(c1, Fout, C_ADD(Rd(c, Fout), t))
  IN  IF m - 1 # 0 /\ ~c2.ub
      THEN kf_bfly2_do(c2, Fout + 1, Fout2 + 1, tw1 + fstride, fstride, st, m - 1)
      ELSE c2

kf_bfly2(c, Fout, fstride, st, m) ==
  kf_bfly2_do(c, Fout, Fout + m, 0, fstride, st, m)

(* ------------------------------ kf_bfly4 ------------------------------- *)
\* The quarter-turn of scratch[4] applied to scratch[5]: the values stored
\* to Fout[m] and Fout[m3].
Bfly4RotateMut(inverse, s5, s4) ==
  <<Cpx(FAdd(s5.r, s4.i), FSub(s5.i, s4.r)),
    Cpx(FSub(s5.r, s4.i), FAdd(s5.i, s4.r))>>
Bfly4Rotate(inverse, s5, s4) ==
  IF inverse # 0
  THEN <<Cpx(FSub(s5.r, s4.i), FAdd(s5.i, s4.r)),
         Cpx(FAdd(s5.r, s4.i), FSub(s5.i, s4.r))>>
  ELSE <<Cpx(FAdd(s5.r, s4.i), FSub(s5.i, s4.r)),
         Cpx(FSub(s5.r, s4.i), FAdd(s5.i, s4.r))>>

RECURSIVE kf_bfly4_do(_, _, _, _, _, _, _, _, _)
kf_bfly4_do(c, Fout, tw1, tw2, tw3, fstride, st, m, k) ==
  LET m2 == 2 * m
      m3 == 3 * m
      s0 == C_MUL(Rd(c, Fout + m), TwAt(st, tw1))
      s1 == C_MUL(Rd(c, Fout + m2), TwAt(st, tw2))
      s2 == C_MUL(Rd(c, Fout + m3), TwAt(st, tw3))
      s5 == C_SUB(Rd(c, Fout), s1)
      f0 == C_ADD(Rd(c, Fout), s1)
      s3 == C_ADD(s0, s2)
      s4 == C_SUB(s0, s2)
      rot == Bfly4Rotate(st.inverse, s5, s4)
      c1 == Wr(Touch(TwLog(c, st, {tw1, tw2, tw3}), {Fout, Fout + m, Fout + m2, Fout + m3}),
               Fout + m2, C_SUB(f0, s3))
      c2 == Wr(c1, Fout, C_ADD(f0, s3))
      c3 == Wr(c2, Fout + m, rot[1])
      c4 == Wr(c3, Fout + m3, rot[2])
  IN  IF k - 1 # 0 /\ ~c4.ub
      THEN kf_bfly4_do(c4, Fout + 1, tw1 + fstride, tw2 + fstride * 2,
                       tw3 + fstride * 3, fstride, st, m, k - 1)
      ELSE c4

kf_bfly4(c, Fout, fstride, st, m) ==
  kf_bfly4_do(c, Fout, 0, 0, 0, fstride, st, m, m)

(* ------------------------------ kf_bfly3 ------------------------------- *)
RECURSIVE kf_bfly3_do(_, _, _, _, _, _, _, _, _)
kf_bfly3_do(c, Fout, tw1, tw2, epi3, fstride, st, m, k) ==
  LET m2 == 2 * m
      s1 == C_MUL(Rd(c, Fout + m), TwAt(st, tw1))
      s2 == C_MUL(Rd(c, Fout + m2), TwAt(st, tw2))
      s3 == C_ADD(s1, s2)
      s0 == C_MULBYSCALAR(C_SUB(s1, s2), epi3.i)
      fm == Cpx(FSub(Rd(c, Fout).r, HALF_OF(s3.r)),
                FSub(Rd(c, Fout).i, HALF_OF(s3.i)))
      c1 == Wr(Touch(TwLog(c, st, {tw1, tw2}), {Fout, Fout + m, Fout + m2}),
               Fout, C_ADD(Rd(c, Fout), s3))
      c2 == Wr(c1, Fout + m2, Cpx(FAdd(fm.r, s0.i), FSub(fm.i, s0.r)))
      c3 == Wr(c2, Fout + m, Cpx(FSub(fm.r, s0.i), FAdd(fm.i, s0.r)))
  IN  IF k - 1 # 0 /\ ~c3.ub
      THEN kf_bfly3_do(c3, Fout + 1, tw1 + fstride, tw2 + fstride * 2,
                       epi3, fstride, st, m, k - 1)
      ELSE c3

kf_bfly3(c, Fout, fstride, st, m) ==
  kf_bfly3_do(TwLog(c, st, {fstride * m}), Fout, 0, 0, TwAt(st, fstride * m),
              fstride, st, m, m)

(* ------------------------------ kf_bfly5 ------------------------------- *)
\* scratch[6] of the radix-5 kernel.
Bfly5Scratch6Mut(s10, s9, ya, yb) ==
  Cpx(FAdd(S_MUL(s10.i, ya.i), S_MUL(s9.i, yb.i)),
      FAdd(FNeg(S_MUL(s10.r, ya.i)), S_MUL(s9.r, yb.i)))
Bfly5Scratch6(s10, s9, ya, yb) ==
  Cpx(FAdd(S_MUL(s10.i, ya.i), S_MUL(s9.i, yb.i)),
      FSub(FNeg(S_MUL(s10.r, ya.i)), S_MUL(s9.r, yb.i)))

\* scratch[12] of the radix-5 kernel.
Bfly5Scratch12(s10, s9, ya, yb) ==
  Cpx(FAdd(FNeg(S_MUL(s10.i, yb.i)), S_MUL(s9.i, ya.i)),
      FSub(S_MUL(s10.r, yb.i), S_MUL(s9.r, ya.i)))

RECURSIVE kf_bfly5_for(_, _, _, _, _, _, _, _)
kf_bfly5_for(c, Fout, ya, yb, fstride, st, m, u) ==
  IF ~(u < m) \/ c.ub THEN c
  ELSE
    LET F0 == Fout + u
        F1 == Fout + m + u
        F2 == Fout + 2 * m + u
        F3 == Fout + 3 * m + u
        F4 == Fout + 4 * m + u
        s0 == Rd(c, F0)
        s1 == C_MUL(Rd(c, F1), TwAt(st, u * fstride))
        s2 == C_MUL(Rd(c, F2), TwAt(st, 2 * u * fstride))
        s3 == C_MUL(Rd(c, F3), TwAt(st, 3 * u * fstride))
        s4 == C_MUL(Rd(c, F4), TwAt(st, 4 * u * fstride))
        s7 == C_ADD(s1, s4)
        s10 == C_SUB(s1, s4)
        s8 == C_ADD(s2, s3)
        s9 == C_SUB(s2, s3)
        s5 == Cpx(FAdd(FAdd(s0.r, S_MUL(s7.r, ya.r)), S_MUL(s8.r, yb.r)),
                  FAdd(FAdd(s0.i, S_MUL(s7.i, ya.r)), S_MUL(s8.i, yb.r)))
        s6 == Bfly5Scratch6(s10, s9, ya, yb)
        s11 == Cpx(FAdd(FAdd(s0.r, S_MUL(s7.r, yb.r)), S_MUL(s8.r, ya.r)),
                   FAdd(FAdd(s0.i, S_MUL(s7.i, yb.r)), S_MUL(s8.i, ya.r)))
        s12 == Bfly5Scratch12(s10, s9, ya, yb)
        c0 == Touch(TwLog(c, st, {u * fstride, 2 * u * fstride, 3 * u * fstride,
                                  4 * u * fstride}), {F0, F1, F2, F3, F4})
        c1 == Wr(c0, F0, Cpx(FAdd(s0.r, FAdd(s7.r, s8.r)),
                             FAdd(s0.i, FAdd(s7.i, s8.i))))
        c2 == Wr(c1, F1, C_SUB(s5, s6))
        c3 == Wr(c2, F4, C_ADD(s5, s6))
        c4 == Wr(c3, F2, C_ADD(s11, s12))
        c5 == Wr(c4, F3, C_SUB(s11, s12))
    IN  kf_bfly5_for(c5, Fout, ya, yb, fstride, st, m, u + 1)

kf_bfly5(c, Fout, fstride, st, m) ==
  kf_bfly5_for(TwLog(c, st, {fstride * m, fstride * 2 * m}), Fout,
               TwAt(st, fstride * m), TwAt(st, fstride * 2 * m),
               fstride, st, m, 0)

(* --------------------------- kf_bfly_generic --------------------------- *)
\* twidx += fstride * k; if (twidx >= Norig) twidx -= Norig;
TwidxStepMut(twidx, fstride, k, Norig) == twidx + fstride * k
TwidxStep(twidx, fstride, k, Norig) ==
  LET t == twidx + fstride * k
  IN  IF t >= Norig THEN t - Norig ELSE t

\* for (q = 1; q < p; ++q) { twidx += ...; C_MUL(t, scratch[q], twiddles[twidx]);
\*                           C_ADDTO(Fout[k], t); }
RECURSIVE kf_bfly_generic_q(_, _, _, _, _, _, _, _, _)
kf_bfly_generic_q(c, Fout, scratch, twidx, q, k, fstride, st, p) ==
  IF ~(q < p) \/ c.ub THEN c
  ELSE
    LET tx == TwidxStep(twidx, fstride, k, st.nfft)
        t == C_MUL(scratch[q], TwAt(st, tx))
        c0 == [TwLog(c, st, {tx}) EXCEPT !.gtw = @ \cup {<<tx, fstride * k, q>>}]
        c1 == Wr(c0, Fout + k, C_ADD(Rd(c, Fout + k), t))
    IN  kf_bfly_generic_q(c1, Fout, scratch, tx, q + 1, k, fstride, st, p)

\* for (q1 = 0; q1 < p; ++q1) { twidx = 0; Fout[k] = scratch[0]; ...; k += m; }
\* mp = <<m, p>>
RECURSIVE kf_bfly_generic_q1(_, _, _, _, _, _, _, _)
kf_bfly_generic_q1(c, Fout, scratch, q1, k, fstride, st, mp) ==
  IF ~(q1 < mp[2]) \/ c.ub THEN c
  ELSE kf_bfly_generic_q1(
         kf_bfly_generic_q(Wr(c, Fout + k, scratch[0]), Fout, scratch, 0, 1, k,
                           fstride, st, mp[2]),
         Fout, scratch, q1 + 1, k + mp[1], fstride, st, mp)

\* for (u = 0; u < m; ++u): gather scratch[q1] = Fout[u + q1*m], then combine.
RECURSIVE kf_bfly_generic_u(_, _, _, _, _, _, _)
kf_bfly_generic_u(c, Fout, u, fstride, st, m, p) ==
  IF ~(u < m) \/ c.ub THEN c
  ELSE
    LET scratch == [q1 \in 0..(p - 1) |-> C_FIXDIV(Rd(c, Fout + u + q1 * m), p)]
        c0 == Touch(c, {Fout + u + q1 * m : q1 \in 0..(p - 1)})
    IN  kf_bfly_generic_u(
          kf_bfly_generic_q1(c0, Fout, scratch, 0, u, fstride, st, <<m, p>>),
          Fout, u + 1, fstride, st, m, p)

kf_bfly_generic(c, Fout, fstride, st, m, p) ==
  IF TmpAllocIsNull(c)
  THEN KISS_FFT_ERROR(TmpAlloc(c), "Memory allocation failed.")
  ELSE kf_bfly_generic_u(TmpAlloc(c), Fout, 0, fstride, st, m, p)

(* ------------------------------- kf_work ------------------------------- *)
\* switch (p): the butterfly that recombines the p smaller DFTs.
kf_bfly(c, Fout, fstride, st, m, p) ==
  LET c1 == IF c.failed THEN [c EXCEPT !.after = @ + 1] ELSE c
  IN  CASE p = 2 -> kf_bfly2(c1, Fout, fstride, st, m)
        [] p = 3 -> kf_bfly3(c1, Fout, fstride, st, m)
        [] p = 4 -> kf_bfly4(c1, Fout, fstride, st, m)
        [] p = 5 -> kf_bfly5(c1, Fout, fstride, st, m)
        [] OTHER -> kf_bfly_generic(c1, Fout, fstride, st, m, p)

\* if (fstride==1 && p<=5 && m!=1), compiled under #ifdef _OPENMP
FanOut(openmp, fstride, p, m) == openmp /\ fstride = 1 /\ p <= 5 /\ m # 1

\* const kiss_fft_cpx * Fout_end = Fout + p*m;
FoutEnd(Fout, p, m) == Fout + p * m

\* The block of output addresses of an invocation.
Block(Fout, p, m) == Fout..(Fout + p * m - 1)

\* Before a butterfly: c0 is the context at entry, c1 the context after the
\* sub-transforms were run on a context with an empty write set.
Combine(c0, c1, Fout, p, m) ==
  [c1 EXCEPT !.wr = c0.wr \cup c1.wr,
             !.ord = c1.ord /\ (c1.wr = Block(Fout, p, m))]

RECURSIVE kf_work(_, _, _, _, _, _, _)
RECURSIVE kf_work_copy(_, _, _, _, _, _)
RECURSIVE kf_work_subs(_, _, _, _, _, _, _, _, _)

\* m == 1:  do { *Fout = *f; f += fstride*in_stride; } while (++Fout != Fout_end);
kf_work_copy(c, Fout, f, fstride, in_stride, Fout_end) ==
  LET c1 == Wr([Touch(c, {f}) EXCEPT !.rd = @ \cup {f}], Fout, Rd(c, f))
  IN  IF Fout + 1 # Fout_end /\ ~c1.ub
      THEN kf_work_copy(c1, Fout + 1, f + fstride * in_stride, fstride,
                        in_stride, Fout_end)
      ELSE c1

\* do { kf_work(Fout, f, fstride*p, ...); f += fstride*in_stride; }
\* while ((Fout += m) != Fout_end);   pm = <<p, m>>
kf_work_subs(c, Fout, f, fstride, in_stride, factors, st, pm, Fout_end) ==
  LET c1 == kf_work(c, Fout, f, fstride * pm[1], in_stride, factors, st)
  IN  IF Fout + pm[2] # Fout_end /\ ~c1.ub
      THEN kf_work_subs(c1, Fout + pm[2], f + fstride * in_stride, fstride,
                        in_stride, factors, st, pm, Fout_end)
      ELSE c1

\* factors is the offset of the factors pointer into st->factors.  A
\* parallel region entered by a thread that is itself inside one is counted
\* in forks; its p work units are the p passes of the do-loop.
kf_work(c, Fout, f, fstride, in_stride, factors, st) ==
  LET p == Factors(st, factors)
      m == Factors(st, factors + 1)
      Fout_end == FoutEnd(Fout, p, m)
      c0 == [c EXCEPT !.wr = {},
                      !.forks = IF FanOut(c.openmp, fstride, p, m)
                                THEN @ + 1 ELSE @]
      c1 == IF m = 1
            THEN kf_work_copy(c0, Fout, f, fstride, in_stride, Fout_end)
            ELSE kf_work_subs(c0, Fout, f, fstride, in_stride,
                              factors + 2, st, <<p, m>>, Fout_end)
  IN  IF c1.ub THEN c1
      ELSE kf_bfly(Combine(c, c1, Fout, p, m), Fout, fstride, st, m, p)

(* ---------------------------- kiss_fft_alloc --------------------------- *)
\* How the caller provides the plan's storage (mem, lenmem) and what the
\* allocator answers.
AllocSources == {"malloc", "malloc_null", "mem_fits", "mem_small"}

NULL_CFG == [null |-> TRUE]
CRASHED == [crashed |-> TRUE]
IsPlan(s) == "nfft" \in DOMAIN s

\* st after the first if/else: whether storage for the plan was obtained.
HaveStorage(src) == src \in {"malloc", "mem_fits"}

\* The values kiss_fft_alloc can return.  kf_factor(-1) overflows p, which
\* is undefined: an execution that wraps ends with the pair (-1, 1), one
\* that traps never returns.
kiss_fft_alloc(nfft, inverse_fft, src) ==
  IF ~HaveStorage(src) THEN {NULL_CFG}
  ELSE LET f == kf_factor(nfft)
       IN  IF f.overflow
           THEN {PlanOf(nfft, inverse_fft, <<-1, 1>>), CRASHED}
           ELSE {PlanOf(nfft, inverse_fft, f.facbuf)}

(* ---------------------------- kiss_fft_stride -------------------------- *)
\* The plan lengths transformed: those up to MaxN, and SquareLen, whose
\* roots of unity the scalar field holds (the divisors of Unit).
Lengths == {n \in (1..MaxN) \cup {SquareLen} : Unit % n = 0}
MaxLen == CHOOSE n \in Lengths : \A k \in Lengths : k <= n

\* The address space of a call: the caller's buffers A and B, and the
\* storage KISS_FFT_TMP_ALLOC returns for tmpbuf.
BufLen == MaxLen * MaxStride
NullPtr == -1
BufA == 0
BufB == BufLen
TmpBuf == 2 * BufLen
Addrs == 0..(2 * BufLen - 1)
TmpAddrs == TmpBuf..(TmpBuf + MaxLen - 1)

\* The caller's memory extended with the storage of tmpbuf.  malloc'ed
\* storage is uninitialised; every sample of it is written before it is
\* read (the field ord of the context), so its first content is immaterial.
WithTmp(mem) == [a \in Addrs \cup TmpAddrs |-> IF a \in Addrs THEN mem[a] ELSE CZero]

\* memcpy(fout, tmpbuf, sizeof(kiss_fft_cpx)*st->nfft)
Memcpy(c, dst, src, n) ==
  [c EXCEPT !.mem = [a \in DOMAIN c.mem |->
                       IF a \in dst..(dst + n - 1) THEN c.mem[src + (a - dst)]
                       ELSE c.mem[a]]]

\* The in-place branch after tmpbuf was obtained.
InPlaceMut(c, st, fin, fout, in_stride) ==
  kf_work(c, fout, fin, 1, in_stride, 0, st)
InPlace(c, st, fin, fout, in_stride) ==
  LET c1 == kf_work(c, TmpBuf, fin, 1, in_stride, 0, st)
  IN  IF c1.ub THEN c1 ELSE Memcpy(c1, fout, TmpBuf, st.nfft)

kiss_fft_stride(c, st, fin, fout, in_stride) ==
  IF fin = fout
  THEN IF fout = NullPtr
       THEN KISS_FFT_ERROR(c, "fout buffer NULL.")
       ELSE IF TmpAllocIsNull(c)
            THEN KISS_FFT_ERROR(TmpAlloc(c), "Memory allocation error.")
            ELSE InPlace(TmpAlloc(c), st, fin, fout, in_stride)
  ELSE kf_work(c, fout, fin, 1, in_stride, 0, st)

(* ------------------------------ the caller ----------------------------- *)
\* The signals the caller writes to buffer A: every unit impulse of value 1
\* or i (a basis of the signals of a length over the scalars), and a ramp.
NoInput == [kind |-> "none"]
Inputs(len) ==
  [kind : {"impulse"}, len : {len}, pos : 0..(len - 1), val : {Cpx(1, 0), Cpx(0, 1)}]
    \cup [kind : {"ramp"}, len : {len}]

\* The samples of a signal that some call on a plan of length nfft reads.
Strided(nfft) == {n * s : n \in 0..(nfft - 1), s \in 1..MaxStride}

Sample(x, j) ==
  IF x.kind = "impulse" THEN (IF j = x.pos THEN x.val ELSE CZero)
  ELSE IF x.kind = "ramp" /\ j < x.len THEN Cpx(j + 1, 3 * j + 2)
  ELSE CZero

InputMem(x) == [a \in Addrs |-> IF a < BufLen THEN Sample(x, a) ELSE CZero]

(* ------------------------------- state --------------------------------- *)
\*   st      the plan the caller holds (NULL_CFG: none)
\*   req     the arguments of the last kiss_fft_alloc call
\*   mem     the caller's buffers A and B
\*   x0      the signal the caller wrote to buffer A
\*   calls   the transform calls made since, oldest first
\*   last    what the last transform call did (its context, memory left out)
\*   facbuf  the last kf_factor call: its argument and the buffer it wrote
\*   fast    the last kiss_fft_next_fast_size call: argument and result
\*   par     the transform call in flight in the OpenMP build
VARIABLES st, req, mem, x0, calls, last, facbuf, fast, par

vars == <<st, req, mem, x0, calls, last, facbuf, fast, par>>

NoReq == [kind |-> "none"]
NoCall == [kind |-> "none"]
NoFactor == [kind |-> "none"]
NoFast == [kind |-> "none"]
Idle == [pc |-> "idle"]

Init ==
  /\ st = NULL_CFG
  /\ req = NoReq
  /\ mem = InputMem(NoInput)
  /\ x0 = NoInput
  /\ calls = <<>>
  /\ last = NoCall
  /\ facbuf = NoFactor
  /\ fast = NoFast
  /\ par = Idle

\* What a finished call leaves for inspection: the context without memory,
\* and what the caller gets back (kiss_fft_stride returns void).  units is
\* the number of work units of the call's parallel region (0: none), joined
\* the units that had ended when the top-level butterfly began, tasks what
\* each unit did.
Summary(c, units, joined, tasks) ==
  [kind |-> "call", wr |-> c.wr, rd |-> c.rd, tw |-> c.tw, gtw |-> c.gtw,
   na |-> c.na, failed |-> c.failed, after |-> c.after, forks |-> c.forks,
   ord |-> c.ord, log |-> c.log, ub |-> c.ub, ret |-> "void",
   units |-> units, joined |-> joined, tasks |-> tasks]

CallRecord(s, fin, fout, in_stride, c) ==
  [nfft |-> s.nfft, inverse |-> s.inverse, fin |-> fin, fout |-> fout,
   in_stride |-> in_stride, failed |-> c.failed]

AllocLengths == ((-MinNfft)..0) \cup Lengths

\* kiss_fft_alloc(nfft, inverse_fft, mem, lenmem)
Alloc(nfft, inverse_fft, src) ==
  /\ par = Idle
  /\ st' \in kiss_fft_alloc(nfft, inverse_fft, src)
  /\ req' = [nfft |-> nfft, inverse_fft |-> inverse_fft]
  /\ UNCHANGED <<mem, x0, calls, last, facbuf, fast, par>>

\* The caller writes a signal to buffer A.
Fill(x) ==
  /\ par = Idle
  /\ IsPlan(st)
  /\ st.nfft >= 1
  /\ x \in Inputs(st.nfft * MaxStride)
  /\ x.kind = "impulse" => x.pos \in Strided(st.nfft)
  /\ mem' = InputMem(x)
  /\ x0' = x
  /\ UNCHANGED <<st, req, calls, last, facbuf, fast, par>>

\* The buffer holding the signal: A, then the output of the last call.
Cur == IF calls = <<>> THEN BufA ELSE calls[Len(calls)].fout

CanTransform ==
  /\ IsPlan(st)
  /\ st.nfft >= 1
  /\ x0 # NoInput
  /\ par = Idle

\* The allocations that fail in a call: none, or the failAt-th.
FailSet(failAt) == IF failAt = 0 THEN {} ELSE {failAt}

\* The call kiss_fft_stride(st, fin, fout, in_stride) in the build without
\* OpenMP, its failAt-th temporary allocation failing (0: none fails).
Call(fin, fout, in_stride, failAt) ==
  kiss_fft_stride(NewCtx(WithTmp(mem), FALSE, FailSet(failAt)), st, fin, fout, in_stride)

Min(a, b) == IF a < b THEN a ELSE b

\* The ways a call can end: any one of the temporary allocations it makes
\* may fail, up to the maxFail-th.
Outcomes(fin, fout, in_stride, maxFail) ==
  LET c0 == Call(fin, fout, in_stride, 0)
  IN  {c0} \cup {Call(fin, fout, in_stride, failAt) : failAt \in 1..Min(c0.na, maxFail)}

\* kiss_fft_stride(st, fin, fout, in_stride)
Transform(fin, fout, in_stride, maxFail) ==
  /\ CanTransform
  /\ \E c \in Outcomes(fin, fout, in_stride, maxFail) :
       /\ mem' = [a \in Addrs |-> c.mem[a]]
       /\ calls' = Append(calls, CallRecord(st, fin, fout, in_stride, c))
       /\ last' = Summary(c, 0, {}, <<>>)
  /\ UNCHANGED <<st, req, x0, facbuf, fast, par>>

AllInputs == UNION {Inputs(n * MaxStride) : n \in Lengths}

\* One session of the engine without OpenMP: a plan is requested, a signal
\* is written to buffer A, and one transform call is made on it.
Next ==
  \/ \E nfft \in AllocLengths, inverse_fft \in {0, 1}, src \in AllocSources :
       req = NoReq /\ Alloc(nfft, inverse_fft, src)
  \/ \E x \in AllInputs : x0 = NoInput /\ Fill(x)
  \/ \E fout \in {BufA, BufB}, in_stride \in 1..MaxStride :
       calls = <<>> /\ Transform(BufA, fout, in_stride, MaxFailAt)
  \/ \E in_stride \in 1..MaxStride :
       calls = <<>> /\ Transform(NullPtr, NullPtr, in_stride, 0)

Spec == Init /\ [][Next]_vars

\* The round trip: a signal is transformed by a forward plan, then the
\* result by an inverse plan of the same length, every allocation granted.
NextRound ==
  \/ \E nfft \in Lengths : req = NoReq /\ Alloc(nfft, 0, "malloc")
  \/ \E x \in AllInputs : x0 = NoInput /\ Fill(x)
  \/ \E fout \in {BufA, BufB}, in_stride \in 1..MaxStride :
       calls = <<>> /\ IsPlan(st) /\ st.inverse = 0 /\ Transform(BufA, fout, in_stride, 0)
  \/ Len(calls) = 1 /\ st.inverse = 0 /\ Alloc(st.nfft, 1, "malloc")
  \/ \E fout \in {BufA, BufB} :
       Len(calls) = 1 /\ st.inverse # 0 /\ Transform(Cur, fout, 1, 0)

SpecRound == Init /\ [][NextRound]_vars

(* ------------------------- kf_factor on its own ------------------------ *)
\* kf_factor(n, facbuf) for a length n >= 1.
KfFactor(n) ==
  /\ facbuf' = [kind |-> "factored", n |-> n, out |-> kf_factor(n)]
  /\ UNCHANGED <<st, req, mem, x0, calls, last, fast, par>>

NextFactor == \E n \in 1..MaxFactorN : KfFactor(n)

SpecFactor == Init /\ [][NextFactor]_vars

(* ------------------------ kiss_fft_next_fast_size ---------------------- *)
\* kiss_fft_next_fast_size(n) for an int n.
NextFastSize(n) ==
  /\ fast' = [kind |-> "asked", n |-> n, out |-> kiss_fft_next_fast_size(n)]
  /\ UNCHANGED <<st, req, mem, x0, calls, last, facbuf, par>>

NextFast == \E n \in (-MinFastN)..MaxFastN : NextFastSize(n)

SpecFast == Init /\ [][NextFast]_vars

(* --------------------------- the OpenMP build -------------------------- *)
\* Where kiss_fft_stride has kf_work write: tmpbuf when fin == fout.
Target(fin, fout) == IF fin = fout THEN TmpBuf ELSE fout

\* The output pointer of work unit k:  Fout + k*m
UnitFoutMut(Fout, k, m) == Fout + k
UnitFout(Fout, k, m) == Fout + k * m

\* What a work unit did: the part of its context that outlives it.
UnitRecord(ran, c) ==
  [ran |-> ran, wr |-> c.wr, rd |-> c.rd, tw |-> c.tw, gtw |-> c.gtw,
   na |-> c.na, failed |-> c.failed, after |-> c.after, forks |-> c.forks,
   ord |-> c.ord, ub |-> c.ub]

NotRun == UnitRecord(FALSE, NewCtx(<<>>, TRUE, {}))

\* kiss_fft_stride up to the parallel region of the top-level kf_work.  A
\* plan whose first stage does not fan out is transformed by the calling
\* thread alone.
ParCall(fin, fout, in_stride) ==
  /\ CanTransform
  /\ LET p == Factors(st, 0)
         m == Factors(st, 1)
     IN  IF FanOut(TRUE, 1, p, m)
         THEN /\ par' = [pc |-> "forked", fin |-> fin, fout |-> fout,
                         in_stride |-> in_stride, cmem |-> WithTmp(mem),
                         tasks |-> [k \in 0..(p - 1) |-> NotRun]]
              /\ UNCHANGED <<mem, calls, last>>
         ELSE \E c \in {kiss_fft_stride(NewCtx(WithTmp(mem), TRUE, {}), st, fin,
                                        fout, in_stride)} :
                /\ mem' = [a \in Addrs |-> c.mem[a]]
                /\ calls' = Append(calls, CallRecord(st, fin, fout, in_stride, c))
                /\ last' = Summary(c, 0, {}, <<>>)
                /\ par' = par
  /\ UNCHANGED <<st, req, x0, facbuf, fast>>

\* Work unit k of  #pragma omp parallel for:
\* kf_work(Fout + k*m, f + fstride*in_stride*k, fstride*p, in_stride, factors, st)
\* run by some thread of the team, the units in any order.
Task(k) ==
  /\ par.pc = "forked"
  /\ k \in DOMAIN par.tasks
  /\ ~par.tasks[k].ran
  /\ LET p == Factors(st, 0)
         m == Factors(st, 1)
     IN  \E c \in {kf_work(NewCtx(par.cmem, TRUE, {}),
                           UnitFout(Target(par.fin, par.fout), k, m),
                           par.fin + par.in_stride * k, p, par.in_stride, 2, st)} :
           par' = [par EXCEPT !.cmem = c.mem, !.tasks[k] = UnitRecord(TRUE, c)]
  /\ UNCHANGED <<st, req, mem, x0, calls, last, facbuf, fast>>

Ran(tasks) == {k \in DOMAIN tasks : tasks[k].ran}

\* The end of the parallel region: all threads have joined.
JoinedMut(tasks) == TRUE
Joined(tasks) == \A k \in DOMAIN tasks : tasks[k].ran

\* The sum of n[k] over the units k in S.
RECURSIVE UnitSum(_, _)
UnitSum(n, S) ==
  IF S = {} THEN 0
  ELSE LET k == CHOOSE j \in S : TRUE
       IN  n[k] + UnitSum(n, S \ {k})

\* The context of the calling thread after the parallel region: what the
\* call did so far is what kiss_fft_stride did before the region (tmpbuf,
\* when the call is in place) and what the work units did.  No allocation
\* is refused in the sessions of this build, so nothing was logged.
AfterRegion(cmem, tasks, Fout, p, m) ==
  LET wr == UNION {tasks[k].wr : k \in DOMAIN tasks}
      units == DOMAIN tasks
  IN  [NewCtx(cmem, TRUE, {}) EXCEPT
         !.wr = wr,
         !.rd = UNION {tasks[k].rd : k \in units},
         !.tw = UNION {tasks[k].tw : k \in units},
         !.gtw = UNION {tasks[k].gtw : k \in units},
         !.forks = 1,
         !.na = (IF Fout = TmpBuf THEN 1 ELSE 0)
                  + UnitSum([k \in units |-> tasks[k].na], units),
         !.failed = \E k \in units : tasks[k].failed,
         !.after = UnitSum([k \in units |-> tasks[k].after], units),
         !.ub = \E k \in units : tasks[k].ub,
         !.ord = (\A k \in units : tasks[k].ord) /\ wr = Block(Fout, p, m)]

\* After the region: the top-level butterfly, the copy out of tmpbuf when
\* the call is in place, and the return to the caller.
Join ==
  /\ par.pc = "forked"
  /\ Joined(par.tasks)
  /\ LET p == Factors(st, 0)
         m == Factors(st, 1)
         Fout == Target(par.fin, par.fout)
     IN  \E c \in {kf_bfly(AfterRegion(par.cmem, par.tasks, Fout, p, m),
                           Fout, 1, st, m, p)} :
           \E d \in {IF par.fin = par.fout /\ ~c.ub
                     THEN Memcpy(c, par.fout, TmpBuf, st.nfft) ELSE c} :
             /\ mem' = [a \in Addrs |-> d.mem[a]]
             /\ calls' = Append(calls, CallRecord(st, par.fin, par.fout,
                                                  par.in_stride, d))
             /\ last' = Summary(d, p, Ran(par.tasks), par.tasks)
  /\ par' = Idle
  /\ UNCHANGED <<st, req, x0, facbuf, fast>>

\* One session of the engine built with OpenMP.
NextPar ==
  \/ \E nfft \in Lengths \cap (1..MaxN), inverse_fft \in {0, 1} :
       req = NoReq /\ Alloc(nfft, inverse_fft, "malloc")
  \/ \E x \in AllInputs : x0 = NoInput /\ Fill(x)
  \/ \E fout \in {BufA, BufB}, in_stride \in 1..MaxStride :
       calls = <<>> /\ ParCall(BufA, fout, in_stride)
  \/ \E k \in 0..4 : Task(k)
  \/ Join

SpecPar == Init /\ [][NextPar]_vars

(* ------------------------- the reference DFT --------------------------- *)
\* sum over n in lo..hi of x[n*s] * W^(n*k)
RECURSIVE DftSum(_, _, _, _, _, _)
DftSum(x, s, W, k, lo, hi) ==
  IF lo = hi
  THEN LET v == Sample(x, lo * s)
       IN  IF v = CZero THEN CZero ELSE C_MUL(v, CPow(W, lo * k))
  ELSE LET mid == (lo + hi) \div 2
       IN  C_ADD(DftSum(x, s, W, k, lo, mid), DftSum(x, s, W, k, mid + 1, hi))

\* The length-N DFT of the samples x[0], x[s], x[2s], ... with root W.
Dft(x, s, W, N) == [k \in 0..(N - 1) |-> DftSum(x, s, W, k, 0, N - 1)]

\* The plan's primitive root: twiddle entry 1 (for N = 1 the table holds 1 only).
RootOf(s) == IF s.nfft > 1 THEN s.twiddles[1] ELSE s.twiddles[0]

\* Sample k of the output of the last call.
Out(k) == mem[calls[Len(calls)].fout + k]

\* A call that ran to its end: buffers given, every allocation granted.
Completed(call) == call.fin # NullPtr /\ ~call.failed

\* The output of the sequential engine, out of place, on a fresh copy of the
\* signal x0.
Reference(in_stride) ==
  kiss_fft_stride(NewCtx(WithTmp(InputMem(x0)), FALSE, {}), st, BufA, BufB, in_stride)

(* ------------------------------ claims --------------------------------- *)
\* C1: the output of a forward transform of length N with input stride s is
\* out[k] = sum over n of x[n*s] * W^(n*k), W being twiddle entry 1.  In
\* particular a length-1 transform copies its sample, the unit impulse at 0
\* of a length-4 transform gives the flat spectrum (1,0), and out[0] is the
\* sum of the samples.
C1_ForwardIsDft ==
  (Len(calls) = 1 /\ Completed(calls[1]) /\ st.inverse = 0) =>
    LET N == st.nfft
        s == calls[1].in_stride
        d == Dft(x0, s, RootOf(st), N)
    IN  /\ \A k \in 0..(N - 1) : Out(k) = d[k]
        /\ Out(0) = DftSum(x0, s, COne, 0, 0, N - 1)
        /\ N = 1 => Out(0) = Sample(x0, 0)
        /\ (N = 4 /\ x0.kind = "impulse" /\ x0.pos = 0 /\ x0.val = COne) =>
             \A k \in 0..3 : Out(k) = COne

\* C1 happened: a strided forward transform of the ramp, of a length whose
\* butterflies are generic with m > 1, gave a spectrum that is not flat.
C1_Witness ==
  /\ Len(calls) = 1 /\ Completed(calls[1]) /\ st.inverse = 0
  /\ st.nfft = SquareLen /\ calls[1].in_stride = 2 /\ x0.kind = "ramp"
  /\ Out(1) # Out(2)

\* C2: a forward transform followed by an inverse transform of the same
\* length returns every sample multiplied by N.
C2_RoundTrip ==
  (Len(calls) = 2 /\ calls[1].inverse = 0 /\ calls[2].inverse # 0
     /\ Completed(calls[1]) /\ Completed(calls[2])) =>
    \A k \in 0..(st.nfft - 1) :
      Out(k) = C_MULBYSCALAR(Sample(x0, k * calls[1].in_stride), st.nfft % P)

\* C2 happened: a ramp went forward through radix-4 and radix-3 stages and
\* came back in place.
C2_Witness ==
  /\ Len(calls) = 2 /\ calls[1].inverse = 0 /\ calls[2].inverse # 0
  /\ st.nfft = 12 /\ x0.kind = "ramp" /\ calls[2].fin = calls[2].fout
  /\ calls[1].in_stride = 2 /\ Out(1) = Cpx(36, 96)

\* C3: a transform with fin = fout gives what the out-of-place transform
\* gives on a copy of the input; it decimates into a scratch buffer of N
\* samples, which is then copied to the output, and samples of the buffer
\* beyond the first N keep their values.
C3_InPlace ==
  (Len(calls) = 1 /\ Completed(calls[1]) /\ calls[1].fin = calls[1].fout) =>
    LET N == st.nfft
        ref == Reference(calls[1].in_stride)
    IN  /\ \A k \in 0..(N - 1) : Out(k) = ref.mem[BufB + k]
        /\ last.wr = Block(TmpBuf, 1, N)
        /\ \A a \in N..(BufLen - 1) : mem[calls[1].fout + a] = Sample(x0, a)

\* C3 happened: an in-place strided transform of a ramp of length 12.
C3_Witness ==
  /\ Len(calls) = 1 /\ Completed(calls[1]) /\ calls[1].fin = calls[1].fout
  /\ st.nfft = 12 /\ x0.kind = "ramp" /\ calls[1].in_stride = 2
  /\ Out(0) # Sample(x0, 0)

\* The product of the radices p1 p2 ... of a factor buffer.
RECURSIVE Radices(_)
Radices(f) == IF Len(f) < 2 THEN 1 ELSE f[1] * Radices(SubSeq(f, 3, Len(f)))

\* C4: for every N >= 1 kf_factor ends and writes pairs (p1,m1,p2,m2,...)
\* with p1*m1 = N, p_i*m_i = m_(i-1), the last m equal to 1 and the radices
\* multiplying to N; for N = 1 it writes the single pair (1,1).
C4_Factorization ==
  facbuf.kind = "factored" =>
    LET f == facbuf.out.facbuf
        n == facbuf.n
        stages == Len(f) \div 2
    IN  /\ ~facbuf.out.overflow
        /\ Len(f) = 2 * stages /\ stages >= 1
        /\ \A i \in 1..stages :
             f[2 * i - 1] * f[2 * i] = (IF i = 1 THEN n ELSE f[2 * i - 2])
        /\ f[Len(f)] = 1
        /\ Radices(f) = n
        /\ n = 1 => f = <<1, 1>>

\* C4 happened: 120 was factored into 4, 2, 3, 5.
C4_Witness ==
  /\ facbuf.kind = "factored" /\ facbuf.n = 120
  /\ facbuf.out.facbuf = <<4, 30, 2, 15, 3, 5, 5, 1>>

IsPrime(q) == q >= 2 /\ \A d \in 2..(q - 1) : q % d # 0

\* m has no prime factor other than 2, 3 and 5.
Only235(m) ==
  m # 0 /\ \A q \in 2..Abs(m) : (IsPrime(q) /\ Abs(m) % q = 0) => q \in {2, 3, 5}

\* C5: for every integer n, kiss_fft_next_fast_size(n) returns the least
\* m >= n whose only prime factors are 2, 3 and 5.
C5_NextFastSize ==
  fast.kind = "asked" =>
    /\ ~fast.out.hang
    /\ fast.out.v >= fast.n
    /\ Only235(fast.out.v)
    /\ \A j \in fast.n..(fast.out.v - 1) : ~Only235(j)

\* C5 fails: asked for the size after -7, the function answered -7.
C5_Witness ==
  fast.kind = "asked" /\ fast.n = -7 /\ fast.out = Ends(-7)

\* C6: kiss_fft_alloc called with nfft <= 0 fails and creates no plan.
C6_InvalidLength ==
  (req # NoReq /\ req.nfft <= 0) => ~IsPlan(st)

\* C6 fails: kiss_fft_alloc(0, ...) returned a plan of length 0 whose
\* factor buffer holds the pair (4, 0).
C6_Witness ==
  /\ req # NoReq /\ req.nfft = 0
  /\ IsPlan(st) /\ st.nfft = 0 /\ st.factors = <<4, 0>>

\* C7: a call in which a scratch allocation fails returns AllocationError
\* to its caller, and no butterfly of the call runs after the failure.
C7_AllocationError ==
  (last.kind = "call" /\ last.failed) =>
    (last.ret = "AllocationError" /\ last.after = 0)

\* C7 fails: in a call on a plan of length 14 the scratch of the first
\* radix-7 butterfly was refused; the call logged it, ran the second
\* radix-7 butterfly and the radix-2 butterfly, and returned nothing.
C7_Witness ==
  /\ last.kind = "call" /\ st.nfft = 14
  /\ last.failed /\ last.log = <<"Memory allocation failed.">>
  /\ last.after = 2 /\ last.ret = "void"

\* C8: the top-level butterfly of a call with a parallel region begins only
\* when all p work units have ended; and in either mode every butterfly of
\* the call finds its whole block written by its own sub-transforms.
C8_JoinBeforeButterfly ==
  last.kind = "call" =>
    /\ last.ord
    /\ last.units > 0 => last.joined = 0..(last.units - 1)

\* C8 happened: a call on a plan of length 24 ran four work units and then
\* the radix-4 butterfly.
C8_Witness ==
  /\ last.kind = "call" /\ last.units = 4 /\ st.nfft = 24
  /\ last.joined = 0..3 /\ last.ord

\* What the work units of a parallel region did, Fout being the region's
\* output pointer and m the length of a unit's block: unit k wrote only the
\* samples Fout + k*m .. Fout + (k+1)*m - 1, no unit wrote a sample another
\* unit wrote or read, and no unit entered a parallel region of its own.
UnitsApart(tasks, Fout, m) ==
  \A k \in DOMAIN tasks :
    tasks[k].ran =>
      /\ tasks[k].wr = Block(Fout + k * m, 1, m)
      /\ tasks[k].forks = 0
      /\ \A j \in DOMAIN tasks \ {k} :
           tasks[j].ran => tasks[k].wr \cap (tasks[j].wr \cup tasks[j].rd) = {}

\* C9: the work units of a parallel region are free of races (unit k writes
\* only its own block of m output samples, and nothing it writes is read or
\* written by another unit), none spawns further units, and the call gives
\* what the sequential engine gives, whatever the order the units ran in.
C9_RaceFree ==
  /\ par.pc = "forked" =>
       UnitsApart(par.tasks, Target(par.fin, par.fout), Factors(st, 1))
  /\ (last.kind = "call" /\ last.units > 0) =>
       /\ UnitsApart(last.tasks, Target(calls[1].fin, calls[1].fout), Factors(st, 1))
       /\ last.forks = 1
       /\ LET ref == Reference(calls[1].in_stride)
          IN  \A k \in 0..(st.nfft - 1) : Out(k) = ref.mem[BufB + k]

\* C9 happened: three of the four work units of a length-24 call have run,
\* unit 3 before unit 0.
C9_Witness ==
  /\ par.pc = "forked" /\ st.nfft = 24
  /\ Ran(par.tasks) = {0, 2, 3}
  /\ par.cmem[Target(par.fin, par.fout)] # CZero

\* C10: every index with which a call reads the twiddle table is in
\* 0..N-1, and the index twidx of the generic butterfly equals
\* (fstride * k * q) mod N.
C10_TwiddleIndex ==
  last.kind = "call" =>
    /\ last.tw \subseteq 0..(st.nfft - 1)
    /\ \A g \in last.gtw : g[1] = (g[2] * g[3]) % st.nfft

\* C10 happened: a generic butterfly with m > 1 read the table at an index
\* that had wrapped around N more than once.
C10_Witness ==
  /\ last.kind = "call" /\ st.nfft = SquareLen
  /\ \E g \in last.gtw : g[2] * g[3] >= 2 * st.nfft /\ g[2] > 7 /\ g[1] > 0

=============================================================================
